---- MODULE Spec2Model ----
(***************************************************************************)
(* Model of EtcdDriver (profile-service/src/drivers/etcd.driver.ts): the   *)
(* resolver that backs process.env with values kept in etcd, its scope     *)
(* guard, and its watch handlers.                                          *)
(*                                                                         *)
(* JavaScript values are strings. `undefined` and `null` are two reserved  *)
(* strings; a key path is a sequence of tokens, "/" being the separator,   *)
(* so that split('/') is computed and not assumed.                         *)
(***************************************************************************)
EXTENDS Naturals, Sequences, FiniteSets, TLC

\* ------------------------------------------------------------------ bounds
MaxCalls == 2        \* initialize() invocations in one behaviour of SpecRepeat
MaxRemoteOps == 2    \* puts/deletes made by other clients of the etcd server

\* ------------------------------------------------------------- JS values
undefined == "<undefined>"
null == "<null>"

\* JS truthiness of a string-or-nullish value
Falsy(v) == v \in {undefined, null, ""}

\* JS `a || b`
Or(a, b) == IF Falsy(a) THEN b ELSE a

\* String(v), the coercion an assignment to process.env applies
ToStr(v) == IF v = undefined THEN "undefined" ELSE IF v = null THEN "null" ELSE v

\* `${v}` inside a key path: the tokens of String(v)
Tmpl(v) == IF ToStr(v) = "" THEN << >> ELSE << ToStr(v) >>

\* --------------------------------------------------------------- manifest
ParamNames == {"P", "Q"}
KeyOrder == << "P", "Q" >>

NoPath == << >>
NoEntry == [kind |-> "none", literal |-> undefined, etcdPath |-> NoPath, defaultValue |-> undefined]
StrEntry(s) == [kind |-> "string", literal |-> s, etcdPath |-> NoPath, defaultValue |-> undefined]
ObjEntry(path, dflt) == [kind |-> "object", literal |-> undefined, etcdPath |-> path, defaultValue |-> dflt]

\* Object.keys(envParams), in insertion order
ObjectKeys(manifest) == SelectSeq(KeyOrder, LAMBDA n : manifest[n].kind # "none")

\* envParams[propertyName]?.toString()
EntryToString(e) ==
    IF e.kind = "none" THEN undefined
    ELSE IF e.kind = "string" THEN e.literal
    ELSE "[object Object]"

\* envParams[propertyName] !== '[object Object]' (strict: an object never equals a string)
NotObjectString(e) == e.kind # "string" \/ e.literal # "[object Object]"

StrDefaultVal(e) == IF NotObjectString(e) THEN EntryToString(e) ELSE undefined

\* getPropertySetting: the entry when it is an object, else undefined (NoEntry)
GetPropertySetting(manifest, n) == IF manifest[n].kind = "object" THEN manifest[n] ELSE NoEntry

\* ------------------------------------------------------------- key paths
RECURSIVE SplitAcc(_, _, _)
SplitAcc(s, cur, acc) ==
    IF s = << >> THEN Append(acc, cur)
    ELSE IF Head(s) = "/" THEN SplitAcc(Tail(s), << >>, Append(acc, cur))
    ELSE SplitAcc(Tail(s), Append(cur, Head(s)), acc)

\* keyName.split('/')
Split(keyName) == SplitAcc(keyName, << >>, << >>)

\* the guard as section 4.3 words it: more than three pieces
IsInScopeDeep(keyName) == Len(Split(keyName)) > 3

IsInScope(keyName) ==
    LET splittedKey == Split(keyName) IN
    IF Len(splittedKey) >= 3
    THEN IF Len(splittedKey) = 3 /\ splittedKey[Len(splittedKey)] # << >>
         THEN TRUE
         ELSE Len(splittedKey) > 3
    ELSE FALSE

\* the environment directory added whenever NODE_ENV is set, the flag ignored
GetEnvironemntDirAnyFlag(cfg, nodeEnv) ==
    IF ~Falsy(nodeEnv) THEN << nodeEnv, "/" >> ELSE << >>

\* getEnvironemntDir
GetEnvironemntDir(cfg, nodeEnv) ==
    IF cfg.driverConfigs.genEnvDirectories /\ ~Falsy(nodeEnv)
    THEN << nodeEnv, "/" >>
    ELSE << >>

GeneratedEtcdPath(cfg, nodeEnv, n) ==
    << "/" >> \o Tmpl(cfg.driverConfigs.dirname) \o << "/" >> \o GetEnvironemntDir(cfg, nodeEnv) \o << n >>

\* propertySetting?.etcdPath || generatedEtcdPath
EtcdEntryName(cfg, nodeEnv, n) ==
    LET propertySetting == GetPropertySetting(cfg.envParams, n) IN
    IF propertySetting.etcdPath # NoPath THEN propertySetting.etcdPath
    ELSE GeneratedEtcdPath(cfg, nodeEnv, n)

\* ----------------------------------------------------------------- inputs
EntryChoices ==
    [n \in ParamNames |->
        IF n = "P"
        THEN { NoEntry, StrEntry("L"), ObjEntry(NoPath, "D"), ObjEntry(<< "mongodb_uri" >>, undefined) }
        ELSE { NoEntry, StrEntry("L"), ObjEntry(<< "/", "svc" >>, "D") }]
Manifests == { m \in [ParamNames -> UNION {EntryChoices[n] : n \in ParamNames}] :
                 \A n \in ParamNames : m[n] \in EntryChoices[n] }
DriverConfigs ==
    [dirname : {undefined, "svc"}, genKeys : BOOLEAN, overrideSysObj : BOOLEAN,
     watchKeys : BOOLEAN, overrideNotInScope : BOOLEAN, genEnvDirectories : BOOLEAN]

\* what the first caller may hand to initialize(): every manifest with every
\* setting of the flags that can tell two runs apart
UserConfigs ==
    { u \in [envParams : Manifests, driverConfigs : DriverConfigs] :
        LET d == u.driverConfigs IN
        /\ d.overrideNotInScope => (d.genKeys /\ ~d.watchKeys)
        /\ d.genEnvDirectories => (~d.watchKeys /\ ~d.overrideNotInScope)
        /\ d.dirname = undefined =>
              (~d.genKeys /\ ~d.watchKeys /\ ~d.genEnvDirectories /\ ~d.overrideSysObj) }

EnvNames == ParamNames \cup {"NODE_ENV"}
AmbientChoices == [n \in ParamNames |-> IF n = "P" THEN {undefined, "A", ""} ELSE {undefined}]
RemoteValues == {"V"}
\* the keys that may hold a value before the first initialize()
InitialKeys ==
    { << "/", "svc", "/", "P" >>, << "/", "svc", "/", "prod", "/", "P" >>, << "mongodb_uri" >> }
InitialStores == { << >>, [k \in InitialKeys |-> "R"], [k \in InitialKeys |-> ""] }
Calls == 1 .. MaxCalls

\* ------------------------------------------------------------------ state
VARIABLES
    defaultConfigs,            \* this.defaultConfigs
    proccesedConfigurations,   \* this.proccesedConfigurations
    client,                    \* this.client # null
    etcdWatcher,               \* this._etcdWatcher # null
    envParams,                 \* this.envParams (null and {} both read as all-undefined)
    processEnv,                \* process.env
    store,                     \* the etcd key space: present keys -> value
    watchers,                  \* the Watcher objects, in creation order
    calls,                     \* each initialize() invocation: position and locals
    gets,                      \* client.get requests issued
    puts,                      \* client.put requests issued
    remoteOps                  \* writes made by other clients so far

vars == << defaultConfigs, proccesedConfigurations, client, etcdWatcher, envParams,
           processEnv, store, watchers, calls, gets, puts, remoteOps >>

\* client.get(key).string(): null for a missing key
Lookup(st, key) == IF key \in DOMAIN st THEN st[key] ELSE null

StorePut(st, key, val) == [k \in DOMAIN st \cup {key} |-> IF k = key THEN val ELSE st[k]]
StoreDelete(st, key) == [k \in DOMAIN st \ {key} |-> st[k]]

\* overrideDefaultConfigs: driverConfigs merged field by field, user value first
OverrideDefaultConfigs(dflt, customConfigs) ==
    [envParams |-> customConfigs.envParams,
     driverConfigs |->
        [customConfigs.driverConfigs EXCEPT
            !.dirname = IF customConfigs.driverConfigs.dirname = undefined
                        THEN dflt.driverConfigs.dirname ELSE @]]

NoDriverConfigs ==
    [dirname |-> undefined, genKeys |-> FALSE, overrideSysObj |-> FALSE, watchKeys |-> FALSE,
     overrideNotInScope |-> FALSE, genEnvDirectories |-> FALSE]

IdleCall ==
    [pc |-> "idle", given |-> [envParams |-> [n \in ParamNames |-> NoEntry], driverConfigs |-> NoDriverConfigs],
     precondition |-> "none", keys |-> << >>, idx |-> 0, propertyName |-> undefined,
     propertySetting |-> NoEntry, etcdEntryName |-> NoPath, putVal |-> undefined,
     result |-> "pending", caught |-> "none"]

Init ==
    /\ defaultConfigs = [envParams |-> [n \in ParamNames |-> NoEntry], driverConfigs |-> NoDriverConfigs]
    /\ proccesedConfigurations = defaultConfigs
    /\ client = FALSE
    /\ etcdWatcher = FALSE
    /\ envParams = [n \in ParamNames |-> undefined]
    /\ processEnv \in { e \in [EnvNames -> {undefined, "A", "", "prod"}] :
                          /\ e["NODE_ENV"] \in {undefined, "prod"}
                          /\ \A n \in ParamNames : e[n] \in AmbientChoices[n] }
    /\ store \in InitialStores
    /\ watchers = << >>
    /\ calls = [c \in Calls |-> IdleCall]
    /\ gets = {}
    /\ puts = {}
    /\ remoteOps = 0

\* ------------------------------------------------------------- initialize
\* no catch block: the exception rejects the promise
InitializeRethrow(call, ex) == [call EXCEPT !.pc = "done", !.result = "rejected", !.caught = ex]

\* the catch block of initialize(): the exception is logged, the promise resolves
InitializeCatch(call, ex) == [call EXCEPT !.pc = "done", !.result = "resolved", !.caught = ex]

\* initializeProcess returned: the promise of initialize() resolves
InitializeReturn(call) == [call EXCEPT !.pc = "done", !.result = "resolved"]

\* the checks left out
PreconditionSkipped(cfg) == "none"

\* the two precondition checks of initialize(); the name of what is thrown, or "none"
PreconditionThrow(cfg) ==
    IF Falsy(cfg.driverConfigs.dirname) THEN "ETCD_SERVICE_NAME not found"
    ELSE IF Len(ObjectKeys(cfg.envParams)) = 0 THEN "Configs arg does not contains any properties"
    ELSE "none"

\* head of one pass of the for-loop of initializeProcess, up to the awaited get;
\* past the last key the loop ends and initialize() returns
BeginIteration(call, cfg, env, i) ==
    IF i > Len(call.keys) THEN InitializeReturn(call)
    ELSE [call EXCEPT
            !.pc = "get",
            !.idx = i,
            !.propertyName = call.keys[i],
            !.propertySetting = GetPropertySetting(cfg.envParams, call.keys[i]),
            !.etcdEntryName = EtcdEntryName(cfg, env["NODE_ENV"], call.keys[i])]

GetRequests(c, call) ==
    IF call.pc = "get"
    THEN {[call |-> c, prop |-> call.propertyName, key |-> call.etcdEntryName]}
    ELSE {}

\* initialize(connectionOptions, userDefinedConfigs), up to its first await
Initialize(c, userDefinedConfigs) ==
    /\ calls[c].pc = "idle"
    /\ \A d \in Calls : d < c => calls[d].pc # "idle"
    /\ LET cfg == OverrideDefaultConfigs(defaultConfigs, userDefinedConfigs)
           thrown == PreconditionThrow(cfg)
           started == [calls[c] EXCEPT !.given = userDefinedConfigs, !.precondition = thrown,
                                       !.keys = ObjectKeys(cfg.envParams)]
           call == IF thrown # "none" THEN InitializeCatch(started, thrown)
                   ELSE BeginIteration(started, cfg, processEnv, 1)
       IN /\ proccesedConfigurations' = cfg
          /\ calls' = [calls EXCEPT ![c] = call]
          /\ gets' = gets \cup GetRequests(c, call)
    /\ client' = TRUE
    /\ etcdWatcher' = TRUE
    /\ UNCHANGED << defaultConfigs, envParams, processEnv, store, watchers, puts, remoteOps >>

\* the chain with the ambient value tried before the remote one
EffectiveAmbientFirst(etcdVal, ambient, defaultValue, strDefaultVal) ==
    Or(Or(Or(ambient, etcdVal), defaultValue), strDefaultVal)

\* etcdVal || process.env[propertyName] || propertySetting?.defaultValue || strDefaultVal
Effective(etcdVal, ambient, defaultValue, strDefaultVal) ==
    Or(Or(Or(etcdVal, ambient), defaultValue), strDefaultVal)

\* the handlers closing over one propertyName shared by all iterations of the loop
NewWatcherSharedName(key, propertyName) ==
    [key |-> key, prop |-> KeyOrder[Len(KeyOrder)], state |-> "creating", inbox |-> << >>]

\* watchForChanges(key, propertyName): the watcher and what its handlers close over
NewWatcher(key, propertyName) ==
    [key |-> key, prop |-> propertyName, state |-> "creating", inbox |-> << >>]

\* the server's change events reach every watcher registered on the key
Notify(ws, key, ev) ==
    [i \in DOMAIN ws |->
        IF ws[i].key = key /\ ws[i].state \in {"active", "cancelling"}
        THEN [ws[i] EXCEPT !.inbox = Append(@, ev)]
        ELSE ws[i]]

\* the genKeys branch without its scope check
PutWantedAnyScope(cfg, etcdVal, key) == Falsy(etcdVal) /\ cfg.driverConfigs.genKeys

\* the genKeys branch: is a put attempted for this key?
PutWanted(cfg, etcdVal, key) ==
    /\ Falsy(etcdVal)
    /\ cfg.driverConfigs.genKeys
    /\ (cfg.driverConfigs.overrideNotInScope \/ IsInScope(key))

\* the awaited get of initializeProcess fails: the exception leaves the loop
GetFail(c) ==
    /\ calls[c].pc = "get"
    /\ calls' = [calls EXCEPT ![c] = InitializeCatch(@, "get failed")]
    /\ UNCHANGED << defaultConfigs, proccesedConfigurations, client, etcdWatcher, envParams,
                    processEnv, store, watchers, gets, puts, remoteOps >>

\* the awaited get returns; the loop body runs to the awaited put or to the next get.
\* putThrows: whether value(undefined) of the put builder throws
GetReturn(c, putThrows) ==
    /\ calls[c].pc = "get"
    /\ LET call == calls[c]
           cfg == proccesedConfigurations
           n == call.propertyName
           key == call.etcdEntryName
           etcdVal == Lookup(store, key)
           strDefaultVal == StrDefaultVal(cfg.envParams[n])
           defaultValue == call.propertySetting.defaultValue
           env == IF cfg.driverConfigs.overrideSysObj
                  THEN [processEnv EXCEPT
                          ![n] = ToStr(Effective(etcdVal, processEnv[n], defaultValue, strDefaultVal))]
                  ELSE processEnv
           putVal == env[n]
           next == IF PutWanted(cfg, etcdVal, key)
                   THEN IF putVal = undefined /\ putThrows
                        THEN InitializeCatch(call, "put value undefined")
                        ELSE [call EXCEPT !.pc = "put", !.putVal = putVal]
                   ELSE BeginIteration(call, cfg, env, call.idx + 1)
       IN /\ putThrows => (PutWanted(cfg, etcdVal, key) /\ putVal = undefined)
          /\ processEnv' = env
          /\ envParams' = [envParams EXCEPT
                             ![n] = Effective(etcdVal, env[n], defaultValue, strDefaultVal)]
          /\ watchers' = IF cfg.driverConfigs.watchKeys
                         THEN Append(watchers, NewWatcher(key, n))
                         ELSE watchers
          /\ calls' = [calls EXCEPT ![c] = next]
          /\ gets' = gets \cup GetRequests(c, next)
          /\ puts' = IF next.pc = "put"
                     THEN puts \cup {[call |-> c, prop |-> n, key |-> key, value |-> putVal]}
                     ELSE puts
    /\ UNCHANGED << defaultConfigs, proccesedConfigurations, client, etcdWatcher, store, remoteOps >>

\* the bytes a put stores for its value; an undefined that got through is stored empty
PutBytes(v) == IF v = undefined THEN "" ELSE v

\* the awaited put fails
PutFail(c) ==
    /\ calls[c].pc = "put"
    /\ calls' = [calls EXCEPT ![c] = InitializeCatch(@, "put failed")]
    /\ UNCHANGED << defaultConfigs, proccesedConfigurations, client, etcdWatcher, envParams,
                    processEnv, store, watchers, gets, puts, remoteOps >>

\* the awaited put returns: the key is written, and the loop goes to the next key
PutReturn(c) ==
    /\ calls[c].pc = "put"
    /\ LET call == calls[c]
           next == BeginIteration(call, proccesedConfigurations, processEnv, call.idx + 1)
       IN /\ store' = StorePut(store, call.etcdEntryName, PutBytes(call.putVal))
          /\ watchers' = Notify(watchers, call.etcdEntryName,
                                [kind |-> "put", value |-> PutBytes(call.putVal)])
          /\ calls' = [calls EXCEPT ![c] = next]
          /\ gets' = gets \cup GetRequests(c, next)
    /\ UNCHANGED << defaultConfigs, proccesedConfigurations, client, etcdWatcher, envParams,
                    processEnv, puts, remoteOps >>

\* ---------------------------------------------------------------- watches
\* updateEnv writing the self-managed copy only
UpdateEnvCopyOnly(cfg, env, params, propertyName, val) ==
    [env |-> env, params |-> [params EXCEPT ![propertyName] = val]]

\* updateEnv writing process.env whatever overrideSysObj says
UpdateEnvAlwaysMirror(cfg, env, params, propertyName, val) ==
    [env |-> [env EXCEPT ![propertyName] = ToStr(val)],
     params |-> [params EXCEPT ![propertyName] = val]]

\* updateEnv(propertyName, val)
UpdateEnv(cfg, env, params, propertyName, val) ==
    [env |-> IF cfg.driverConfigs.overrideSysObj
             THEN [env EXCEPT ![propertyName] = ToStr(val)] ELSE env,
     params |-> [params EXCEPT ![propertyName] = val]]

\* the "delete" handler leaving process.env alone
DeleteHandlerCopyOnly(cfg, env, params, propertyName) ==
    [env |-> env, params |-> [params EXCEPT ![propertyName] = undefined]]

\* the "delete" handler, up to its awaited cancel
DeleteHandler(cfg, env, params, propertyName) ==
    [env |-> IF cfg.driverConfigs.overrideSysObj
             THEN [env EXCEPT ![propertyName] = undefined] ELSE env,
     params |-> [params EXCEPT ![propertyName] = undefined]]

\* create() resolves: the watch is registered and the two handlers are attached
WatchCreated(i) ==
    /\ watchers[i].state = "creating"
    /\ watchers' = [watchers EXCEPT ![i].state = "active"]
    /\ UNCHANGED << defaultConfigs, proccesedConfigurations, client, etcdWatcher, envParams,
                    processEnv, store, calls, gets, puts, remoteOps >>

\* create() rejects: nothing handles it, no handler is ever attached
WatchCreateFail(i) ==
    /\ watchers[i].state = "creating"
    /\ watchers' = [watchers EXCEPT ![i].state = "failed"]
    /\ UNCHANGED << defaultConfigs, proccesedConfigurations, client, etcdWatcher, envParams,
                    processEnv, store, calls, gets, puts, remoteOps >>

\* the watcher emits its oldest pending event and the handler for it runs
Deliver(i) ==
    /\ watchers[i].state \in {"active", "cancelling"}
    /\ watchers[i].inbox # << >>
    /\ LET ev == Head(watchers[i].inbox)
           after == IF ev.kind = "put"
                    THEN UpdateEnv(proccesedConfigurations, processEnv, envParams,
                                   watchers[i].prop, ev.value)
                    ELSE DeleteHandler(proccesedConfigurations, processEnv, envParams,
                                       watchers[i].prop)
       IN /\ processEnv' = after.env
          /\ envParams' = after.params
          /\ watchers' = [watchers EXCEPT
                            ![i].inbox = Tail(@),
                            ![i].state = IF ev.kind = "delete" THEN "cancelling" ELSE @]
    /\ UNCHANGED << defaultConfigs, proccesedConfigurations, client, etcdWatcher, store,
                    calls, gets, puts, remoteOps >>

\* watcher.cancel() resolves: the server has dropped the watch
CancelDone(i) ==
    /\ watchers[i].state = "cancelling"
    /\ watchers' = [watchers EXCEPT ![i].state = "cancelled", ![i].inbox = << >>]
    /\ UNCHANGED << defaultConfigs, proccesedConfigurations, client, etcdWatcher, envParams,
                    processEnv, store, calls, gets, puts, remoteOps >>

\* ------------------------------------------------- other clients of etcd
RemotePut(key, val) ==
    /\ remoteOps < MaxRemoteOps
    /\ remoteOps' = remoteOps + 1
    /\ store' = StorePut(store, key, val)
    /\ watchers' = Notify(watchers, key, [kind |-> "put", value |-> val])
    /\ UNCHANGED << defaultConfigs, proccesedConfigurations, client, etcdWatcher, envParams,
                    processEnv, calls, gets, puts >>

RemoteDelete(key) ==
    /\ remoteOps < MaxRemoteOps
    /\ key \in DOMAIN store
    /\ remoteOps' = remoteOps + 1
    /\ store' = StoreDelete(store, key)
    /\ watchers' = Notify(watchers, key, [kind |-> "delete", value |-> undefined])
    /\ UNCHANGED << defaultConfigs, proccesedConfigurations, client, etcdWatcher, envParams,
                    processEnv, calls, gets, puts >>

\* the keys the driver is reading, writing or watching: the writes of other
\* clients that it can observe
KeysInUse ==
    { calls[c].etcdEntryName : c \in { d \in Calls : calls[d].pc \in {"get", "put"} } }
    \cup { watchers[i].key : i \in { j \in DOMAIN watchers :
                                        watchers[j].state \in {"creating", "active", "cancelling"} } }

\* every step but the start of a call
Steps ==
    \/ \E c \in Calls : GetFail(c)
    \/ \E c \in Calls, putThrows \in BOOLEAN : GetReturn(c, putThrows)
    \/ \E c \in Calls : PutFail(c)
    \/ \E c \in Calls : PutReturn(c)
    \/ \E i \in DOMAIN watchers : WatchCreated(i)
    \/ \E i \in DOMAIN watchers : Deliver(i)
    \/ \E i \in DOMAIN watchers : CancelDone(i)
    \/ \E k \in KeysInUse, v \in RemoteValues : RemotePut(k, v)
    \/ \E k \in KeysInUse : RemoteDelete(k)

\* a driver initialized once, with any of UserConfigs
Next ==
    \/ \E u \in UserConfigs : Initialize(1, u)
    \/ \E i \in DOMAIN watchers : WatchCreateFail(i)
    \/ Steps

Spec == Init /\ [][Next]_vars

\* what the callers of a driver that is initialized more than once hand to it: one
\* generated parameter, watched or not, with mirroring on or off
RepeatConfigs ==
    { u \in UserConfigs :
        /\ u.envParams = [n \in ParamNames |-> IF n = "P" THEN StrEntry("L") ELSE NoEntry]
        /\ u.driverConfigs.dirname = "svc" /\ u.driverConfigs.genKeys
        /\ ~u.driverConfigs.overrideNotInScope /\ ~u.driverConfigs.genEnvDirectories }

InitRepeat == Init /\ processEnv["NODE_ENV"] = undefined

\* a driver initialized up to MaxCalls times, each call after the one before it ended
NextRepeat ==
    \/ \E c \in Calls, u \in RepeatConfigs :
          (\A d \in Calls : d < c => calls[d].pc = "done") /\ Initialize(c, u)
    \/ Steps

SpecRepeat == InitRepeat /\ [][NextRepeat]_vars

\* what two callers of one driver hand to it when their calls overlap: the manifest
\* {P, Q} or the manifest {P} alone, with genKeys, watchKeys and overrideSysObj
\* all on or all off
OverlapConfigs ==
    { u \in UserConfigs :
        /\ u.envParams \in { [n \in ParamNames |-> StrEntry("L")],
                             [n \in ParamNames |-> IF n = "P" THEN ObjEntry(NoPath, "D") ELSE NoEntry] }
        /\ u.driverConfigs.dirname = "svc"
        /\ u.driverConfigs.genKeys = u.driverConfigs.watchKeys
        /\ u.driverConfigs.genKeys = u.driverConfigs.overrideSysObj
        /\ ~u.driverConfigs.overrideNotInScope /\ ~u.driverConfigs.genEnvDirectories }

\* a driver whose initialize() is called again while earlier calls are suspended on
\* their awaited get or put; no other client writes to the store
NextOverlap ==
    \/ \E c \in Calls, u \in OverlapConfigs : Initialize(c, u)
    \/ \E c \in Calls : GetFail(c)
    \/ \E c \in Calls, putThrows \in BOOLEAN : GetReturn(c, putThrows)
    \/ \E c \in Calls : PutFail(c)
    \/ \E c \in Calls : PutReturn(c)
    \/ \E i \in DOMAIN watchers : WatchCreated(i)
    \/ \E i \in DOMAIN watchers : Deliver(i)

SpecOverlap == InitRepeat /\ [][NextOverlap]_vars

\* ==================================================================== claims
\* what the claims speak of, stated apart from the operators above

NonEmpty(v) == v \notin {undefined, null, ""}
HasNonEmpty(chain) == \E j \in DOMAIN chain : NonEmpty(chain[j])
FirstNonEmpty(chain) ==
    chain[CHOOSE j \in DOMAIN chain :
            NonEmpty(chain[j]) /\ \A k \in DOMAIN chain : k < j => ~NonEmpty(chain[k])]

\* the non-empty pieces of a key path between its slashes
MeaningfulSegments(keyName) ==
    Cardinality({ j \in DOMAIN Split(keyName) : Split(keyName)[j] # << >> })

\* the configs handed to a call name no directory, or no parameter
InvalidConfiguration(given) ==
    \/ ~NonEmpty(given.driverConfigs.dirname) /\ ~NonEmpty(defaultConfigs.driverConfigs.dirname)
    \/ \A n \in ParamNames : given.envParams[n].kind = "none"

\* this step is the return of call c's awaited get
GetReturned(c) ==
    calls[c].pc = "get" /\ calls'[c] # calls[c] /\ calls'[c].caught # "get failed"

\* this step is watcher i, Active, handing its oldest event of this kind to the handler
Delivered(i, kind) ==
    /\ i \in DOMAIN watchers
    /\ watchers[i].state = "active"
    /\ watchers[i].inbox # << >>
    /\ Head(watchers[i].inbox).kind = kind
    /\ watchers'[i].inbox = Tail(watchers[i].inbox)

\* the items of the fallback chain as the call was given them
Chain(c) ==
    LET n == calls[c].propertyName
        entry == calls[c].given.envParams[n]
    IN << Lookup(store, calls[c].etcdEntryName), processEnv[n], entry.defaultValue, entry.literal >>

\* C1: when the get of a parameter returns, the value stored in envParams is the
\* first non-empty item of: remote value, ambient value, defaultValue, literal
\* default (whenever one of them is non-empty)
C1_FallbackPrecedence ==
    [][\A c \in Calls :
          (GetReturned(c) /\ HasNonEmpty(Chain(c)))
              => envParams'[calls[c].propertyName] = FirstNonEmpty(Chain(c))]_vars

\* a definition with remote R, ambient A and default D resolved to R
C1_Witness ==
    \E c \in Calls :
        /\ calls[c].pc = "done" /\ calls[c].caught = "none"
        /\ calls[c].given.envParams["P"] = ObjEntry(NoPath, "D")
        /\ ~calls[c].given.driverConfigs.overrideSysObj
        /\ processEnv["P"] = "A"
        /\ Lookup(store, << "/", "svc", "/", "P" >>) = "R"
        /\ calls[c].keys = << "P" >>
        /\ \E g \in gets : g.call = c /\ g.key = << "/", "svc", "/", "P" >>
        /\ envParams["P"] = "R"

\* C2 as written: a key path with two meaningful segments or fewer is out of
\* scope, one with three or more is in scope, and a two-segment key is generated
\* only under overrideNotInScope
C2_Original ==
    /\ \A c \in Calls :
          calls[c].pc \in {"get", "put"}
              => (IsInScope(calls[c].etcdEntryName)
                    <=> MeaningfulSegments(calls[c].etcdEntryName) >= 3)
    /\ \A q \in puts :
          MeaningfulSegments(q.key) = 2 => calls[q.call].given.driverConfigs.overrideNotInScope

\* C2 amended: a key path /seg/.../seg is in scope exactly when it has two
\* meaningful segments or more, and only a key with fewer is generated under
\* overrideNotInScope alone
C2_ScopeFromTwoSegments ==
    /\ \A c \in Calls :
          calls[c].pc \in {"get", "put"}
              => (IsInScope(calls[c].etcdEntryName)
                    <=> MeaningfulSegments(calls[c].etcdEntryName) >= 2)
    /\ \A q \in puts :
          MeaningfulSegments(q.key) < 2 => calls[q.call].given.driverConfigs.overrideNotInScope

\* a put for /svc/P was issued without overrideNotInScope, and none for /svc
C2_Witness ==
    /\ \E q \in puts :
          /\ q.key = << "/", "svc", "/", "P" >>
          /\ ~calls[q.call].given.driverConfigs.overrideNotInScope
    /\ \E c \in Calls :
          /\ calls[c].pc = "done" /\ calls[c].caught = "none"
          /\ calls[c].given.driverConfigs.genKeys
          /\ calls[c].given.envParams["Q"] = ObjEntry(<< "/", "svc" >>, "D")
          /\ << "/", "svc" >> \notin DOMAIN store
          /\ \A q \in puts : q.key # << "/", "svc" >>

\* the get of call c returns no value, genKeys is on, overrideNotInScope is off
\* and the key is out of scope
OutOfScopeSkip(c) ==
    /\ GetReturned(c)
    /\ ~NonEmpty(Lookup(store, calls[c].etcdEntryName))
    /\ calls[c].given.driverConfigs.genKeys
    /\ ~calls[c].given.driverConfigs.overrideNotInScope
    /\ MeaningfulSegments(calls[c].etcdEntryName) < 2

\* C3: with genKeys on, overrideNotInScope off, no remote value and the key out
\* of scope, the step issues no put, throws nothing, and stores the ambient or
\* default value of the parameter
C3_OutOfScopeSkipsWrite ==
    [][\A c \in Calls :
          OutOfScopeSkip(c)
              => /\ puts' = puts
                 /\ store' = store
                 /\ calls'[c].caught = "none"
                 /\ HasNonEmpty(Chain(c))
                        => envParams'[calls[c].propertyName] = FirstNonEmpty(Chain(c))]_vars

\* the out-of-scope key mongodb_uri was skipped and P resolved to its ambient value
C3_Witness ==
    \E c \in Calls :
        /\ calls[c].pc = "done" /\ calls[c].caught = "none"
        /\ calls[c].given.driverConfigs.genKeys
        /\ ~calls[c].given.driverConfigs.overrideNotInScope
        /\ calls[c].given.envParams["P"] = ObjEntry(<< "mongodb_uri" >>, undefined)
        /\ << "mongodb_uri" >> \notin DOMAIN store
        /\ \A q \in puts : q.key # << "mongodb_uri" >>
        /\ envParams["P"] = "A"

\* C4 as written: after the get or put of one parameter failed, every later
\* parameter of the manifest has its value in envParams
C4_Original ==
    \A c \in Calls :
        (calls[c].pc = "done" /\ calls[c].caught \in {"get failed", "put failed"})
            => \A j \in DOMAIN calls[c].keys :
                  j > calls[c].idx => NonEmpty(envParams[calls[c].keys[j]])

\* C5 as written: after the get of a parameter failed, envParams holds the
\* parameter's ambient value, else its default
C5_Original ==
    \A c \in Calls :
        (calls[c].pc = "done" /\ calls[c].caught = "get failed")
            => LET n == calls[c].propertyName
                   entry == calls[c].given.envParams[n]
                   local == << processEnv[n], entry.defaultValue, entry.literal >>
               IN HasNonEmpty(local) => envParams[n] = FirstNonEmpty(local)

\* C6 as written: a call given no directory name, or an empty manifest, rejects
C6_Original ==
    \A c \in Calls :
        (calls[c].pc = "done" /\ InvalidConfiguration(calls[c].given))
            => calls[c].result = "rejected"

\* C7: no step of a call given no directory name, or an empty manifest, changes
\* envParams or process.env, or issues a get, a put or a watch
C7_InvalidCallChangesNothing ==
    [][\A c \in Calls :
          (calls'[c] # calls[c] /\ InvalidConfiguration(calls'[c].given))
              => UNCHANGED << envParams, processEnv, store, gets, puts, watchers >>]_vars

\* a call given a manifest but no directory name has ended, and nothing was resolved
C7_Witness ==
    \E c \in Calls :
        /\ calls[c].pc = "done"
        /\ calls[c].given.driverConfigs.dirname = undefined
        /\ calls[c].given.envParams["P"] = StrEntry("L")
        /\ \A n \in ParamNames : envParams[n] = undefined
        /\ gets = {} /\ puts = {} /\ watchers = << >>

\* C8: a call whose preconditions hold never rejects
C8_NeverRejects ==
    \A c \in Calls :
        (calls[c].pc # "idle" /\ ~InvalidConfiguration(calls[c].given))
            => calls[c].result # "rejected"

\* a call whose put failed resolved all the same, with a watch that failed to register
C8_Witness ==
    \E c \in Calls :
        /\ calls[c].pc = "done"
        /\ calls[c].caught = "put failed"
        /\ calls[c].result = "resolved"
        /\ ~InvalidConfiguration(calls[c].given)
        /\ \E i \in DOMAIN watchers : watchers[i].state = "failed"

\* C9: the delete handler of an Active watch removes the parameter from
\* envParams and, with overrideSysObj on, from process.env, and writes nothing
\* to etcd
C9_WatchDeleteRemoves ==
    [][\A i \in DOMAIN watchers :
          Delivered(i, "delete")
              => /\ envParams'[watchers[i].prop] = undefined
                 /\ proccesedConfigurations.driverConfigs.overrideSysObj
                        => processEnv'[watchers[i].prop] = undefined
                 /\ puts' = puts
                 /\ store' = store]_vars

\* a delete was handled with overrideSysObj on: the parameter, resolved before,
\* is in neither map, and its key was not put back
C9_Witness ==
    \E i \in DOMAIN watchers :
        /\ watchers[i].state = "cancelling"
        /\ proccesedConfigurations.driverConfigs.overrideSysObj
        /\ envParams[watchers[i].prop] = undefined
        /\ processEnv[watchers[i].prop] = undefined
        /\ watchers[i].key \notin DOMAIN store

\* C10: the put handler of an Active watch sets envParams[parameter] to the
\* notified value and, with overrideSysObj on, process.env[parameter] too
C10_WatchPutOverwrites ==
    [][\A i \in DOMAIN watchers :
          Delivered(i, "put")
              => LET v == Head(watchers[i].inbox).value IN
                 /\ envParams'[watchers[i].prop] = v
                 /\ proccesedConfigurations.driverConfigs.overrideSysObj
                        => processEnv'[watchers[i].prop] = v]_vars

\* a put of V by another client was handled with overrideSysObj on
C10_Witness ==
    \E i \in DOMAIN watchers :
        /\ watchers[i].state = "active"
        /\ watchers[i].inbox = << >>
        /\ proccesedConfigurations.driverConfigs.overrideSysObj
        /\ Lookup(store, watchers[i].key) = "V"
        /\ envParams[watchers[i].prop] = "V"
        /\ processEnv[watchers[i].prop] = "V"

\* C11 (as stated): initialize() called a second time with the configuration of the
\* first, after the first ended normally, every put so far was handed a string and
\* no other client wrote, against a store that holds the parameter's key: the
\* get's return leaves the parameter's entry as the first call left it and issues
\* no put
C11_Original ==
    [][\A c \in Calls :
          (/\ c > 1
           /\ GetReturned(c)
           /\ calls[c].given = calls[c - 1].given
           /\ calls[c - 1].caught = "none"
           /\ remoteOps = 0
           /\ \A q \in puts : q.value # undefined
           /\ calls[c].etcdEntryName \in DOMAIN store)
              => /\ envParams'[calls[c].propertyName] = envParams[calls[c].propertyName]
                 /\ puts' = puts]_vars

\* C12 (as stated): for an object entry with an explicit etcdPath and an undefined
\* defaultValue, genKeys and overrideSysObj on, no remote value and no ambient
\* value, the get's return leaves the effective value absent (undefined or empty,
\* never a made-up string) and issues no put
C12_Original ==
    [][\A c \in Calls :
          LET n == calls[c].propertyName
              entry == calls[c].given.envParams[n]
              d == proccesedConfigurations.driverConfigs
          IN (/\ GetReturned(c)
              /\ entry.kind = "object"
              /\ entry.etcdPath # NoPath
              /\ entry.defaultValue = undefined
              /\ d.genKeys /\ d.overrideSysObj
              /\ Lookup(store, calls[c].etcdEntryName) = null
              /\ processEnv[n] = undefined)
                 => /\ envParams'[n] \in {undefined, ""}
                    /\ puts' = puts]_vars

\* the key path section 4.2 gives parameter n under the configuration of call c
KeyPathFor(c, n) ==
    LET entry == calls[c].given.envParams[n]
        d == calls[c].given.driverConfigs
        environment == processEnv["NODE_ENV"]
    IN IF entry.kind = "object" /\ entry.etcdPath # NoPath THEN entry.etcdPath
       ELSE IF d.genEnvDirectories /\ NonEmpty(environment)
            THEN << "/", d.dirname, "/", environment, "/", n >>
            ELSE << "/", d.dirname, "/", n >>

\* C13: every get, put and watch of a parameter uses its explicit etcdPath when it
\* has one, otherwise /{dirname}/{parameter}, with /{NODE_ENV}/ in between exactly
\* when genEnvDirectories is on and NODE_ENV is set
C13_KeyPath ==
    /\ \A g \in gets : g.key = KeyPathFor(g.call, g.prop)
    /\ \A q \in puts : q.key = KeyPathFor(q.call, q.prop)
    /\ \A i \in DOMAIN watchers :
          \E c \in Calls : calls[c].pc # "idle" /\ watchers[i].key = KeyPathFor(c, watchers[i].prop)

\* with genEnvDirectories on and NODE_ENV set, P's generated key was put under the
\* environment directory and Q was read at its explicit path
C13_Witness ==
    /\ \E q \in puts : q.prop = "P" /\ q.key = << "/", "svc", "/", "prod", "/", "P" >>
    /\ \E g \in gets : g.prop = "Q" /\ g.key = << "/", "svc" >>
    /\ proccesedConfigurations.driverConfigs.genEnvDirectories

\* C14 (as stated): whenever a get's return issues the put that generates a missing
\* key, the value handed to the put is the value the same return stored in
\* envParams for the parameter
C14_Original ==
    [][\A q \in puts' \ puts : q.value = envParams'[q.prop]]_vars

\* C15 (as stated): the resolver never writes the envParams entry of a parameter
\* that has an Active watch: no get of initialize() returns, and stores the
\* resolved value, while a watcher of that parameter is Active
C15_Original ==
    [][\A c \in Calls :
          GetReturned(c)
              => ~\E i \in DOMAIN watchers :
                     /\ watchers[i].prop = calls[c].propertyName
                     /\ watchers[i].state = "active"]_vars

\* C16 (as stated): no parameter has more than one Active watcher on its key
C16_Original ==
    \A i, j \in DOMAIN watchers :
        (/\ watchers[i].state = "active" /\ watchers[j].state = "active"
         /\ watchers[i].prop = watchers[j].prop
         /\ watchers[i].key = watchers[j].key)
            => i = j

\* this step is watcher i, its delete handler already run and its cancel not yet
\* resolved, handing its oldest event to a handler
DeliveredAfterDelete(i) ==
    /\ watchers[i].state = "cancelling"
    /\ watchers[i].inbox # << >>
    /\ watchers'[i].state = "cancelling"
    /\ watchers'[i].inbox = Tail(watchers[i].inbox)

\* C17 (as stated): once a watcher has applied a delete, no notification delivered
\* on it later changes envParams or process.env
C17_Original ==
    [][\A i \in DOMAIN watchers :
          DeliveredAfterDelete(i) => UNCHANGED << envParams, processEnv >>]_vars

\* the parameters whose key path is the key watcher i sits on
WatchedBy(i) ==
    { n \in ParamNames :
        \E c \in Calls : /\ calls[c].pc # "idle"
                         /\ calls[c].given.envParams[n].kind # "none"
                         /\ KeyPathFor(c, n) = watchers[i].key }

\* this step is a handler of watcher i running, or its cancel resolving
WatchStep(i) ==
    /\ watchers[i].state \in {"active", "cancelling"}
    /\ watchers'[i] # watchers[i]
    /\ Len(watchers') = Len(watchers)
    /\ UNCHANGED << store, calls >>

\* C18: a put, a delete or a cancellation handled on the watch of one parameter
\* leaves the envParams entry, the process.env entry and the watcher of every
\* other parameter as they were
C18_WatchesIndependent ==
    [][\A i \in DOMAIN watchers :
          WatchStep(i)
              => /\ \A n \in ParamNames \ WatchedBy(i) :
                        envParams'[n] = envParams[n] /\ processEnv'[n] = processEnv[n]
                 /\ \A j \in DOMAIN watchers :
                        watchers[j].key # watchers[i].key => watchers'[j] = watchers[j]]_vars

\* P's watch handled a put of V with overrideSysObj on while Q, watched as well,
\* still holds what initialize() resolved
C18_Witness ==
    \E i, j \in DOMAIN watchers :
        /\ watchers[i].key = << "/", "svc", "/", "P" >> /\ watchers[i].state = "active"
        /\ watchers[j].key = << "/", "svc", "/", "Q" >> /\ watchers[j].state = "active"
        /\ proccesedConfigurations.driverConfigs.overrideSysObj
        /\ envParams["P"] = "V" /\ processEnv["P"] = "V"
        /\ envParams["Q"] = "L" /\ processEnv["Q"] = "L"
        /\ remoteOps > 0

\* C19: in every state between two callbacks, with overrideSysObj on, a parameter
\* whose watcher has had its handlers attached holds the same value in envParams
\* and in process.env: no put or delete is ever seen applied to one of them only
C19_AppliedToBoth ==
    proccesedConfigurations.driverConfigs.overrideSysObj
        => \A i \in DOMAIN watchers :
              watchers[i].state \in {"active", "cancelling", "cancelled"}
                  => envParams[watchers[i].prop] = processEnv[watchers[i].prop]

\* between two callbacks: the put of V has been handled, the delete that followed
\* it is still waiting, and V is in both maps
C19_Witness ==
    \E i \in DOMAIN watchers :
        /\ watchers[i].state = "active"
        /\ watchers[i].inbox # << >>
        /\ Head(watchers[i].inbox).kind = "delete"
        /\ proccesedConfigurations.driverConfigs.overrideSysObj
        /\ envParams[watchers[i].prop] = "V"
        /\ processEnv[watchers[i].prop] = "V"

\* C20 (as stated, at the end of a run): with watchKeys on, once every initialize()
\* call has ended and a parameter's watcher is Active with no event left to
\* deliver, a value another client put on its key after the get, and that the key
\* still holds, is the value in envParams
C20_Original ==
    \A i \in DOMAIN watchers :
        (/\ \A c \in Calls : calls[c].pc \in {"idle", "done"}
         /\ watchers[i].state = "active"
         /\ watchers[i].inbox = << >>
         /\ Lookup(store, watchers[i].key) \in RemoteValues)
            => envParams[watchers[i].prop] = Lookup(store, watchers[i].key)

\* C21: while the configuration in force has overrideSysObj off, no step of an
\* initialize() call and no put or delete handler changes process.env
C21_AmbientUntouched ==
    [][~proccesedConfigurations.driverConfigs.overrideSysObj
          => processEnv' = processEnv]_vars

\* with overrideSysObj off, initialize() resolved P from the store and P's watch
\* then handled a put of V: envParams moved twice, process.env.P is still A
C21_Witness ==
    \E i \in DOMAIN watchers :
        /\ watchers[i].prop = "P"
        /\ watchers[i].state = "active"
        /\ watchers[i].inbox = << >>
        /\ ~proccesedConfigurations.driverConfigs.overrideSysObj
        /\ \A c \in Calls : calls[c].pc # "idle" => ~calls[c].given.driverConfigs.overrideSysObj
        /\ envParams["P"] = "V"
        /\ processEnv["P"] = "A"

\* C22 (as stated): a get's return issues a put only for a key that is not in the
\* store at that moment, never for a key that is present, one holding the empty
\* string included
C22_Original ==
    [][\A q \in puts' \ puts : q.key \notin DOMAIN store]_vars

\* C23 (as stated): whatever other initialize() call started in the meantime, when
\* a get of call c returns the parameter is resolved with what call c was given:
\* its key path, its definition's fallback chain, and its overrideSysObj, watchKeys
\* and genKeys flags
C23_Original ==
    [][\A c \in Calls :
          GetReturned(c)
              => LET n == calls[c].propertyName
                     d == calls[c].given.driverConfigs
                 IN /\ calls[c].etcdEntryName = KeyPathFor(c, n)
                    /\ HasNonEmpty(Chain(c)) => envParams'[n] = FirstNonEmpty(Chain(c))
                    /\ processEnv' # processEnv => d.overrideSysObj
                    /\ Len(watchers') > Len(watchers) <=> d.watchKeys
                    /\ puts' # puts => d.genKeys]_vars

====
